---- MODULE Spec2Model ----
(***************************************************************************)
(* Model of the two seeding scripts of Salesforce_Project_Management:      *)
(*   scripts/generate_project_tasks.py  (owner selection, task creation)   *)
(*   scripts/split_tasks_to_projects.py (task distribution over projects)  *)
(* The sf CLI is the environment: query results are drawn from bounded     *)
(* sets and held in org; create_record returns a fresh record id.  A      *)
(* failed sf call ends a run with a traceback: modelled where the split   *)
(* script creates and updates records.                                     *)
(***************************************************************************)
EXTENDS Integers, Sequences, FiniteSets, TLC

(* ------------------------------ bounds -------------------------------- *)
\* number of Account records the org query returns
NumAccounts == 2
\* number of distinct User ids the directory lookups can resolve to
NumUsers == 3
\* --min / --max are drawn from LowTasksArg..MaxTasksArg, around len(STATUSES)
MaxTasksArg == 8
\* split script: tasks in the original project, projects on the account,
\* and the largest --num-projects
MaxTasks == 4
MaxExisting == 3
MaxNumProjects == 3

(* ------------------------- program constants -------------------------- *)
\* Python's None; record ids are integers different from 0
None == 0
\* STATUSES, in source order; the last three but "Blocked" are closed
STATUSES ==
    << "Backlog", "Pending", "In Progress", "In Review",
       "Blocked", "Completed", "Removed", "Closed" >>
\* statuses that keep a task out of open_parents
ClosedStatuses == { "Closed", "Completed", "Removed" }
\* weights of pick_owner, in hundredths
WeightMe == 55
WeightKevin == 35
WeightWilliam == 10
\* max_william = {"remaining": 4}
InitialRemaining == 4
\* for _ in range(3): relationships per account
RelationshipsPerAccount == 3
\* random.randint(1, 3) subtasks per parent
MaxSubtasks == 3
\* len(open_parents) // 5
ParentDivisor == 5

LowTasksArg == MaxTasksArg - 1

\* resolve_current_user_id: user ids are interchangeable, the current user's is 1
CurrentUserId == 1

AccountIds == 1..NumAccounts
UserIds == 1..NumUsers

(* ------------------------------ state --------------------------------- *)
VARIABLES
    script,            \* which script this run executes
    pc,                \* position in main()
    outcome,           \* "running", "ok", "exit" (sys.exit(msg)), "error" (exception)
    args,              \* parsed command line
    org,               \* what the org's queries answer during this run
    me_info, kevin_info, william_info, max_william,
    projects_by_account,   \* account id -> number of projects known
    rel_field_available,
    summary,           \* projects / tasks / subtasks / relationships created
    acct,              \* index of the account the current loop is at
    total_tasks,       \* random.randint(min, max) of the current account
    tasks_to_create,   \* statuses still to create, each as IsOpen(status)
    created_tasks,     \* created_tasks of the current account: [n, open]
    top_level,         \* len(created_tasks) when the top-level loop ended
    potential_parents, \* parents still to receive subtasks
    subs_left,         \* subtasks still to create for the current parent
    rel_i,             \* relationships still to create for the account
    owner_choice,      \* the candidate the last pick_owner call returned
    pick_account,      \* the account_id argument of that call
    william_returned,  \* number of calls that returned the William entry
    create_calls,      \* number of create_record invocations
    update_calls,      \* task id -> number of update_record invocations
    \* split_tasks_to_projects.py
    existing_projects, tasks, projects_to_use,
    next_id,           \* the id the org gives the next created record
    loop_i,            \* i of the project-creation loop
    distribution,      \* dict as a sequence of <<key, tasks>> in insertion order
    move_b, move_t,    \* position of the update loops
    updates_made,
    task_project       \* the org: task id -> Project__c

genVars ==
    << me_info, kevin_info, william_info, max_william, projects_by_account,
       rel_field_available, summary, acct, total_tasks, tasks_to_create,
       created_tasks, top_level, potential_parents, subs_left, rel_i,
       owner_choice, pick_account, william_returned >>

splitVars ==
    << existing_projects, tasks, projects_to_use, next_id, loop_i, distribution,
       move_b, move_t, updates_made, task_project, update_calls >>

vars == << script, pc, outcome, args, org, create_calls, genVars, splitVars >>

(* ------------------------------ helpers ------------------------------- *)
Max(a, b) == IF a >= b THEN a ELSE b

\* a directory lookup that found nobody (find_user returned None)
NoUser == [user_id |-> None, account_id |-> None]

\* what find_user can return: None, or a user with its Contact.AccountId
FindUserResults ==
    { NoUser } \cup [user_id : UserIds, account_id : { None } \cup AccountIds]

\* no pick_owner call has returned yet
NoChoice == [weight |-> 0, user_id |-> None, account_id |-> None]

\* t.get("Status__c") not in ("Closed", "Completed", "Removed")
IsOpen(status) == status \notin ClosedStatuses

StatusSet == { STATUSES[i] : i \in 1..Len(STATUSES) }

(* ------------------- generate_project_tasks.py ------------------------ *)
\* args.min_tasks < 1 or args.max_tasks < args.min_tasks
InvalidMinMax(a) == a.min_tasks < 1 \/ a.max_tasks < a.min_tasks

\* William appended whatever max_william["remaining"] is
WilliamEligibleNoQuota(account_id, william, mw) ==
    /\ william.user_id # None
    /\ william.account_id = account_id

\* William appended whatever account is being processed
WilliamEligibleAnyAccount(account_id, william, mw) ==
    /\ william.user_id # None
    /\ mw.remaining > 0

\* pick_owner: the guard that appends William to candidates
WilliamEligible(account_id, william, mw) ==
    /\ william.user_id # None
    /\ william.account_id = account_id
    /\ mw.remaining > 0

\* pick_owner: the guard that appends Kevin to candidates
KevinEligible(account_id, kevin) == kevin.user_id # None

\* pick_owner: the candidates list
Candidates(account_id, me, kevin, william, mw) ==
    << [weight |-> WeightMe, user_id |-> me.user_id, account_id |-> me.account_id] >>
    \o (IF KevinEligible(account_id, kevin)
        THEN << [weight |-> WeightKevin, user_id |-> kevin.user_id,
                 account_id |-> kevin.account_id] >>
        ELSE << >>)
    \o (IF WilliamEligible(account_id, william, mw)
        THEN << [weight |-> WeightWilliam, user_id |-> william.user_id,
                 account_id |-> william.account_id] >>
        ELSE << >>)

\* random.choices(candidates, weights, k=1)[0]: any candidate of positive weight
Choices(cands) == { cands[i] : i \in { j \in 1..Len(cands) : cands[j].weight > 0 } }

\* pick_owner: max_william after the call returned choice
QuotaAfter(choice, william, mw) ==
    IF choice.user_id = william.user_id
    THEN [mw EXCEPT !.remaining = @ - 1]
    ELSE mw

\* the returned dict is the William roster entry (the only one of weight 0.10)
IsWilliamEntry(choice) == choice.weight = WeightWilliam
IsKevinEntry(choice) == choice.weight = WeightKevin

\* pick_owner as main calls it: the primed owner state
PickOwner(account_id) ==
    \E choice \in Choices(Candidates(account_id, me_info, kevin_info,
                                     william_info, max_william)) :
        /\ owner_choice' = choice
        /\ pick_account' = account_id
        /\ max_william' = QuotaAfter(choice, william_info, max_william)
        /\ william_returned' =
               william_returned + (IF IsWilliamEntry(choice) THEN 1 ELSE 0)

\* statuses + [random.choice(STATUSES) for _ in range(total_tasks - len(STATUSES))]
ExtraCount(total) == Max(0, total - Len(STATUSES))

TasksToCreate(total) ==
    { [i \in 1..Len(STATUSES) |-> IsOpen(STATUSES[i])] \o extra :
        extra \in [1..ExtraCount(total) -> { IsOpen(s) : s \in StatusSet }] }

\* create_record invoked in a dry run too
AlwaysCreated(a) == TRUE

\* the four "if args.dry_run" sites: whether create_record is invoked
ProjectIsCreated(a) == ~a.dry_run
TaskIsCreated(a) == ~a.dry_run
SubtaskIsCreated(a) == ~a.dry_run
RelationshipIsCreated(a) == ~a.dry_run

GenArgs ==
    [min_tasks : LowTasksArg..MaxTasksArg, max_tasks : LowTasksArg..MaxTasksArg,
     dry_run : BOOLEAN, skip_relationships : BOOLEAN]

SplitIdle ==
    /\ existing_projects = << >> /\ tasks = << >> /\ projects_to_use = << >>
    /\ next_id = 0 /\ loop_i = 0 /\ distribution = << >>
    /\ move_b = 0 /\ move_t = 0
    /\ updates_made = 0 /\ task_project = << >> /\ update_calls = << >>

GenIdle ==
    /\ me_info = NoUser /\ kevin_info = NoUser /\ william_info = NoUser
    /\ max_william = [remaining |-> InitialRemaining]
    /\ projects_by_account = [a \in AccountIds |-> 0]
    /\ rel_field_available = FALSE
    /\ summary = [projects |-> 0, tasks |-> 0, subtasks |-> 0, relationships |-> 0]
    /\ acct = 0 /\ total_tasks = 0 /\ tasks_to_create = << >>
    /\ created_tasks = [n |-> 0, open |-> 0]
    /\ top_level = 0 /\ potential_parents = 0 /\ subs_left = 0 /\ rel_i = 0
    /\ owner_choice = NoChoice /\ pick_account = None /\ william_returned = 0

\* the org as generate_project_tasks.py queries it: the two find_user
\* answers, the number of projects of each account, the has_field answer
GenOrgs ==
    [kevin : FindUserResults, william : FindUserResults,
     projects : [AccountIds -> 0..1], rel_field : BOOLEAN]

\* an org with three different users, William a contact of account 1
PlainRoster(o) ==
    /\ o.kevin = [user_id |-> 2, account_id |-> None]
    /\ o.william = [user_id |-> 3, account_id |-> 1]

\* a command line that creates nothing and asks for len(STATUSES) tasks
PlainArgs(a) ==
    /\ a.min_tasks = Len(STATUSES) /\ a.max_tasks = Len(STATUSES)
    /\ a.dry_run /\ ~a.skip_relationships

InitGenWith(argSet, orgSet) ==
    /\ script = "generate" /\ pc = "start" /\ outcome = "running"
    /\ args \in argSet
    /\ org \in orgSet
    /\ create_calls = 0
    /\ GenIdle /\ SplitIdle

\* every command line, on orgs with the plain roster
InitGen == InitGenWith(GenArgs, { o \in GenOrgs : PlainRoster(o) })

\* every roster, under the plain command line, every account with a project
InitOwners ==
    InitGenWith({ a \in GenArgs : PlainArgs(a) },
                { o \in GenOrgs : \A a \in AccountIds : o.projects[a] = 1 })

Halt(result) == pc' = "halt" /\ outcome' = result

\* lines 204-239: argument check, directory lookups, quota, org queries
GenSetup ==
    /\ script = "generate" /\ pc = "start"
    /\ IF InvalidMinMax(args)
       THEN /\ Halt("exit")
            /\ UNCHANGED << genVars >>
       ELSE /\ pc' = "projects" /\ UNCHANGED outcome
            /\ me_info' = [user_id |-> CurrentUserId, account_id |-> None]
            /\ kevin_info' = org.kevin
            /\ william_info' = org.william
            /\ max_william' = [remaining |-> InitialRemaining]
            /\ projects_by_account' = org.projects
            /\ acct' = 1
            /\ UNCHANGED << rel_field_available, summary, total_tasks,
                            tasks_to_create, created_tasks, top_level,
                            potential_parents, subs_left, rel_i, owner_choice,
                            pick_account, william_returned >>
    /\ UNCHANGED << script, args, org, create_calls, splitVars >>

\* lines 245-262: one iteration of the project-creation loop
GenCreateProject ==
    /\ script = "generate" /\ pc = "projects" /\ acct <= NumAccounts
    /\ IF projects_by_account[acct] = 0
       THEN /\ projects_by_account' = [projects_by_account EXCEPT ![acct] = 1]
            /\ IF ProjectIsCreated(args)
               THEN /\ create_calls' = create_calls + 1
                    /\ summary' = [summary EXCEPT !.projects = @ + 1]
               ELSE UNCHANGED << create_calls, summary >>
       ELSE UNCHANGED << projects_by_account, create_calls, summary >>
    /\ acct' = acct + 1
    /\ UNCHANGED << script, pc, outcome, args, org, splitVars, me_info, kevin_info,
                    william_info, max_william, rel_field_available, total_tasks,
                    tasks_to_create, created_tasks, top_level, potential_parents,
                    subs_left, rel_i, owner_choice, pick_account, william_returned >>

\* lines 264-270: has_field probe, summary
GenHasField ==
    /\ script = "generate" /\ pc = "projects" /\ acct > NumAccounts
    /\ rel_field_available' = org.rel_field
    /\ acct' = 1
    /\ pc' = "account"
    /\ UNCHANGED << script, outcome, args, org, create_calls, splitVars, me_info,
                    kevin_info, william_info, max_william, projects_by_account,
                    summary, total_tasks, tasks_to_create, created_tasks,
                    top_level, potential_parents, subs_left, rel_i, owner_choice,
                    pick_account, william_returned >>

\* lines 271-285: next account, total_tasks, tasks_to_create
GenBeginAccount ==
    /\ script = "generate" /\ pc = "account" /\ acct <= NumAccounts
    /\ IF projects_by_account[acct] = 0
       THEN /\ acct' = acct + 1
            /\ UNCHANGED << pc, total_tasks, tasks_to_create, created_tasks >>
       ELSE /\ \E total \in args.min_tasks..args.max_tasks :
                   /\ total_tasks' = total
                   /\ tasks_to_create' \in TasksToCreate(total)
            /\ created_tasks' = [n |-> 0, open |-> 0]
            /\ pc' = "tasks"
            /\ UNCHANGED acct
    /\ UNCHANGED << script, outcome, args, org, create_calls, splitVars, me_info,
                    kevin_info, william_info, max_william, projects_by_account,
                    rel_field_available, summary, top_level, potential_parents,
                    subs_left, rel_i, owner_choice, pick_account, william_returned >>

\* lines 286-297: one iteration of the top-level task loop
GenCreateTask ==
    /\ script = "generate" /\ pc = "tasks" /\ tasks_to_create # << >>
    /\ PickOwner(acct)
    /\ created_tasks' =
           [n |-> created_tasks.n + 1,
            open |-> created_tasks.open + (IF Head(tasks_to_create) THEN 1 ELSE 0)]
    /\ tasks_to_create' = Tail(tasks_to_create)
    /\ IF TaskIsCreated(args)
       THEN /\ create_calls' = create_calls + 1
            /\ summary' = [summary EXCEPT !.tasks = @ + 1]
       ELSE UNCHANGED << create_calls, summary >>
    /\ UNCHANGED << script, pc, outcome, args, org, splitVars, me_info, kevin_info,
                    william_info, projects_by_account, rel_field_available, acct,
                    total_tasks, top_level, potential_parents, subs_left, rel_i >>

\* lines 300-304: open_parents, potential_parents
GenSelectParents ==
    /\ script = "generate" /\ pc = "tasks" /\ tasks_to_create = << >>
    /\ top_level' = created_tasks.n
    /\ potential_parents' =
           IF created_tasks.open > 0
           THEN Max(1, created_tasks.open \div ParentDivisor)
           ELSE 0
    /\ pc' = "parents"
    /\ UNCHANGED << script, outcome, args, org, create_calls, splitVars, me_info,
                    kevin_info, william_info, max_william, projects_by_account,
                    rel_field_available, summary, acct, total_tasks,
                    tasks_to_create, created_tasks, subs_left, rel_i,
                    owner_choice, pick_account, william_returned >>

\* lines 305-306: next parent, random.randint(1, 3) subtasks
GenBeginParent ==
    /\ script = "generate" /\ pc = "parents" /\ potential_parents > 0
    /\ potential_parents' = potential_parents - 1
    /\ subs_left' \in 1..MaxSubtasks
    /\ pc' = "subtasks"
    /\ UNCHANGED << script, outcome, args, org, create_calls, splitVars, me_info,
                    kevin_info, william_info, max_william, projects_by_account,
                    rel_field_available, summary, acct, total_tasks,
                    tasks_to_create, created_tasks, top_level, rel_i,
                    owner_choice, pick_account, william_returned >>

\* lines 307-320: one subtask
GenCreateSubtask ==
    /\ script = "generate" /\ pc = "subtasks" /\ subs_left > 0
    /\ PickOwner(acct)
    /\ created_tasks' = [created_tasks EXCEPT !.n = @ + 1]
    /\ subs_left' = subs_left - 1
    /\ pc' = IF subs_left = 1 THEN "parents" ELSE "subtasks"
    /\ IF SubtaskIsCreated(args)
       THEN /\ create_calls' = create_calls + 1
            /\ summary' = [summary EXCEPT !.tasks = @ + 1, !.subtasks = @ + 1]
       ELSE UNCHANGED << create_calls, summary >>
    /\ UNCHANGED << script, outcome, args, org, splitVars, me_info, kevin_info,
                    william_info, projects_by_account, rel_field_available, acct,
                    total_tasks, tasks_to_create, top_level, potential_parents,
                    rel_i >>

\* line 323: the guard of the relationship loop, after the last parent
GenEndParents ==
    /\ script = "generate" /\ pc = "parents" /\ potential_parents = 0
    /\ IF created_tasks.n > 1 /\ rel_field_available /\ ~args.skip_relationships
       THEN /\ rel_i' = RelationshipsPerAccount
            /\ pc' = "rels"
            /\ UNCHANGED acct
       ELSE /\ acct' = acct + 1
            /\ pc' = "account"
            /\ UNCHANGED rel_i
    /\ UNCHANGED << script, outcome, args, org, create_calls, splitVars, me_info,
                    kevin_info, william_info, max_william, projects_by_account,
                    rel_field_available, summary, total_tasks, tasks_to_create,
                    created_tasks, top_level, potential_parents, subs_left,
                    owner_choice, pick_account, william_returned >>

\* lines 324-336: one relationship
GenCreateRelationship ==
    /\ script = "generate" /\ pc = "rels" /\ rel_i > 0
    /\ rel_i' = rel_i - 1
    /\ IF RelationshipIsCreated(args)
       THEN /\ create_calls' = create_calls + 1
            /\ summary' = [summary EXCEPT !.relationships = @ + 1]
       ELSE UNCHANGED << create_calls, summary >>
    /\ IF rel_i = 1
       THEN acct' = acct + 1 /\ pc' = "account"
       ELSE UNCHANGED << acct, pc >>
    /\ UNCHANGED << script, outcome, args, org, splitVars, me_info, kevin_info,
                    william_info, max_william, projects_by_account,
                    rel_field_available, total_tasks, tasks_to_create,
                    created_tasks, top_level, potential_parents, subs_left,
                    owner_choice, pick_account, william_returned >>

\* lines 338-350: "Done." and the summary
GenFinish ==
    /\ script = "generate" /\ pc = "account" /\ acct > NumAccounts
    /\ Halt("ok")
    /\ UNCHANGED << script, args, org, create_calls, genVars, splitVars >>

(* ------------------- split_tasks_to_projects.py ----------------------- *)
\* --project-id: record ids are interchangeable, the original project's is 1
OriginalProjectId == 1

\* f"DRYPROJ{k}": dry-run ids, apart from every record id
FakeId(k) == 0 - k

\* sequences that list every element of the set S once
Orderings(S) ==
    { f \in [1..Cardinality(S) -> S] : \A i, j \in DOMAIN f : f[i] = f[j] => i = j }

\* the org as split_tasks_to_projects.py queries it: the project by id, the
\* projects of its account (the original among them, in any order), its tasks
SplitOrgs ==
    { [projects |-> << >>, existing |-> << >>, tasks |-> << >>] }
    \cup { [projects |-> << OriginalProjectId >>, existing |-> e, tasks |-> t] :
             e \in UNION { Orderings(1..n) : n \in 1..MaxExisting },
             t \in { [i \in 1..m |-> i] : m \in 0..MaxTasks } }

SplitArgs ==
    [project_id : { OriginalProjectId }, num_projects : 1..MaxNumProjects,
     dry_run : BOOLEAN]

InitSplit ==
    /\ script = "split" /\ pc = "start" /\ outcome = "running"
    /\ args \in SplitArgs
    /\ org \in SplitOrgs
    /\ create_calls = 0
    /\ GenIdle /\ SplitIdle

\* a dict, insertion-ordered: a sequence of << key, value >>
DictKeys(d) == { d[i][1] : i \in 1..Len(d) }
DictGet(d, k, default) ==
    IF k \in DictKeys(d)
    THEN d[CHOOSE i \in 1..Len(d) : d[i][1] = k][2]
    ELSE default
DictSet(d, k, v) ==
    IF k \in DictKeys(d)
    THEN [i \in 1..Len(d) |-> IF d[i][1] = k THEN << k, v >> ELSE d[i]]
    ELSE Append(d, << k, v >>)

\* the early return on an empty task list left out
NeverNoTasks(ts) == FALSE

\* line 115: if len(tasks) == 0
NoTasks(ts) == Len(ts) = 0

\* line 126: projects_needed
ProjectsNeeded(a, existing) == a.num_projects - Len(existing)

\* the original project not filtered out of the existing ones
IsAnyProject(id, a) == TRUE

\* line 147: if proj["Id"] != args.project_id
IsOtherProject(id, a) == id # a.project_id

RECURSIVE OtherExisting(_, _)
\* lines 146-148: the existing projects appended to projects_to_use
OtherExisting(existing, a) ==
    IF existing = << >>
    THEN << >>
    ELSE (IF IsOtherProject(Head(existing), a) THEN << Head(existing) >> ELSE << >>)
         \o OtherExisting(Tail(existing), a)

\* lines 136, 158 and 188: whether create_record / update_record is invoked
SplitProjectIsCreated(a) == ~a.dry_run
TaskIsMoved(a) == ~a.dry_run

RECURSIVE CreateUntil(_, _, _)
\* lines 150-165: while len(projects_to_use) < args.num_projects,
\* as [list, created, nid]
CreateUntil(st, a, nid) ==
    IF Len(st.list) < a.num_projects
    THEN CreateUntil(
             [list |-> Append(st.list,
                              IF SplitProjectIsCreated(a)
                              THEN nid + st.created
                              ELSE FakeId(Len(st.list) + 1)),
              created |-> st.created + (IF SplitProjectIsCreated(a) THEN 1 ELSE 0)],
             a, nid)
    ELSE st

\* lines 98-117: the original project, its tasks, the early exits
SplitSetup ==
    /\ script = "split" /\ pc = "start"
    /\ IF org.projects = << >>
       THEN /\ Halt("exit")
            /\ UNCHANGED << tasks, task_project, update_calls >>
       ELSE /\ tasks' = org.tasks
            /\ task_project' = [t \in 1..Len(org.tasks) |-> args.project_id]
            /\ update_calls' = [t \in 1..Len(org.tasks) |-> 0]
            /\ IF NoTasks(org.tasks)
               THEN Halt("ok")
               ELSE pc' = "plan" /\ UNCHANGED outcome
    /\ UNCHANGED << script, args, org, create_calls, genVars, existing_projects,
                    projects_to_use, next_id, loop_i, distribution, move_b,
                    move_t, updates_made >>

\* lines 119-127 and 144-165: existing projects, projects_to_use, and the
\* branch that uses the existing projects
SplitPlan ==
    /\ script = "split" /\ pc = "plan"
    /\ existing_projects' = org.existing
    /\ next_id' = Len(org.existing) + 1
    /\ IF ProjectsNeeded(args, org.existing) > 0
       THEN /\ projects_to_use' = << args.project_id >>
            /\ loop_i' = 0
            /\ pc' = "create"
            /\ UNCHANGED create_calls
       ELSE LET st == CreateUntil(
                          [list |-> << args.project_id >>
                                    \o OtherExisting(org.existing, args),
                           created |-> 0],
                          args, Len(org.existing) + 1)
            IN  /\ projects_to_use' = st.list
                /\ create_calls' = create_calls + st.created
                /\ loop_i' = 0
                /\ pc' = "distribute"
    /\ UNCHANGED << script, outcome, args, org, genVars, tasks, distribution,
                    move_b, move_t, updates_made, task_project, update_calls >>

\* lines 129-143: one iteration of for i in range(projects_needed)
SplitCreateProject ==
    /\ script = "split" /\ pc = "create"
    /\ loop_i < ProjectsNeeded(args, existing_projects)
    /\ IF SplitProjectIsCreated(args)
       THEN /\ projects_to_use' = Append(projects_to_use, next_id)
            /\ next_id' = next_id + 1
            /\ create_calls' = create_calls + 1
       ELSE /\ projects_to_use' = Append(projects_to_use, FakeId(loop_i + 2))
            /\ UNCHANGED << next_id, create_calls >>
    /\ loop_i' = loop_i + 1
    /\ pc' = IF loop_i + 1 < ProjectsNeeded(args, existing_projects)
             THEN "create" ELSE "distribute"
    /\ UNCHANGED << script, outcome, args, org, genVars, existing_projects,
                    tasks, distribution, move_b, move_t, updates_made,
                    task_project, update_calls >>

\* random.shuffle(tasks): any order of the same tasks
Shuffles(ts) ==
    { [i \in 1..Len(ts) |-> ts[p[i]]] : p \in Orderings(1..Len(ts)) }

\* the remainder test off by one: i <= remainder
BucketCountOffByOne(i, m, k) == (m \div k) + (IF i <= (m % k) THEN 1 ELSE 0)

\* line 177: count of the bucket at index i (0-based) for m tasks, k buckets
BucketCount(i, m, k) == (m \div k) + (IF i < (m % k) THEN 1 ELSE 0)

\* tasks[lo:hi]: a Python slice, cut at the end of the list
Slice(ts, lo, hi) ==
    SubSeq(ts, (IF lo < Len(ts) THEN lo ELSE Len(ts)) + 1,
               IF hi < Len(ts) THEN hi ELSE Len(ts))

RECURSIVE DistributeFrom(_, _, _, _, _)
\* lines 174-179: the loop over enumerate(projects_to_use), from index i
DistributeFrom(d, i, task_idx, ts, ptu) ==
    IF i >= Len(ptu)
    THEN d
    ELSE LET count == BucketCount(i, Len(ts), Len(ptu))
         IN  DistributeFrom(
                 DictSet(d, ptu[i + 1], Slice(ts, task_idx, task_idx + count)),
                 i + 1, task_idx + count, ts, ptu)

\* the original project's bucket not skipped by the update loop
SkipsNoBucket(project_id, a) == FALSE

\* line 185: if project_id == args.project_id: continue
SkipsBucket(project_id, a) == project_id = a.project_id

RECURSIVE MovePos(_, _, _, _)
\* lines 184-187: the next (bucket, task) of the update loops at or after (b, t)
MovePos(d, b, t, a) ==
    IF b > Len(d)
    THEN << b, 1 >>
    ELSE IF SkipsBucket(d[b][1], a) \/ t > Len(d[b][2])
         THEN MovePos(d, b + 1, 1, a)
         ELSE << b, t >>

\* lines 167-180: shuffle, sizes, the distribution dict
SplitDistribute ==
    /\ script = "split" /\ pc = "distribute"
    /\ \E shuffled \in Shuffles(tasks) :
           /\ tasks' = shuffled
           /\ distribution' = DistributeFrom(<< >>, 0, 0, shuffled, projects_to_use)
    /\ updates_made' = 0
    /\ LET pos == MovePos(distribution', 1, 1, args)
       IN  move_b' = pos[1] /\ move_t' = pos[2]
    /\ pc' = "move"
    /\ UNCHANGED << script, outcome, args, org, create_calls, genVars,
                    existing_projects, projects_to_use, next_id, loop_i,
                    task_project, update_calls >>

\* lines 187-192: one task of a bucket that is not the original project
SplitMoveTask ==
    /\ script = "split" /\ pc = "move" /\ move_b <= Len(distribution)
    /\ LET project_id == distribution[move_b][1]
           task == distribution[move_b][2][move_t]
       IN  IF TaskIsMoved(args)
           THEN /\ update_calls' = [update_calls EXCEPT ![task] = @ + 1]
                /\ task_project' = [task_project EXCEPT ![task] = project_id]
                /\ updates_made' = updates_made + 1
           ELSE UNCHANGED << update_calls, task_project, updates_made >>
    /\ LET pos == MovePos(distribution, move_b, move_t + 1, args)
       IN  move_b' = pos[1] /\ move_t' = pos[2]
    /\ UNCHANGED << script, pc, outcome, args, org, create_calls, genVars,
                    existing_projects, tasks, projects_to_use, next_id, loop_i,
                    distribution >>

\* lines 194-203: the report
SplitFinish ==
    /\ script = "split" /\ pc = "move" /\ move_b > Len(distribution)
    /\ Halt("ok")
    /\ UNCHANGED << script, args, org, create_calls, genVars, splitVars >>

\* the fields of the report
TasksMoved == updates_made
TasksRemainingInOriginal == Len(DictGet(distribution, args.project_id, << >>))

\* run_sf raises RuntimeError in create_record or update_record: the script
\* ends with a traceback
SplitSfFailure ==
    /\ script = "split"
    /\ \/ pc = "create" /\ SplitProjectIsCreated(args)
       \/ pc = "move" /\ move_b <= Len(distribution) /\ TaskIsMoved(args)
    /\ Halt("error")
    /\ UNCHANGED << script, args, org, create_calls, genVars, splitVars >>

NextSplit ==
    \/ SplitSetup
    \/ SplitPlan
    \/ SplitCreateProject
    \/ SplitDistribute
    \/ SplitMoveTask
    \/ SplitFinish
    \/ SplitSfFailure

NextGen ==
    \/ GenSetup
    \/ GenCreateProject
    \/ GenHasField
    \/ GenBeginAccount
    \/ GenCreateTask
    \/ GenSelectParents
    \/ GenBeginParent
    \/ GenCreateSubtask
    \/ GenEndParents
    \/ GenCreateRelationship
    \/ GenFinish

SpecOwners == InitOwners /\ [][NextGen]_vars

SpecSplit == InitSplit /\ [][NextSplit]_vars

Init == InitGen \/ InitSplit

Next == NextGen \/ NextSplit

Spec == Init /\ [][Next]_vars

(* ------------------------------ claims -------------------------------- *)
\* C1 (quota exhaustion): once pick_owner has returned the William entry
\* InitialRemaining (4) times in a run, no later pick_owner call of the run
\* returns it, whatever account is processed: the count of William returns
\* does not change any more.
C1_QuotaExhaustion ==
    [][william_returned >= InitialRemaining
       => william_returned' = william_returned]_vars

\* William was returned 4 times and a later call, for William's own account,
\* returned another candidate
C1_Witness ==
    /\ william_returned = InitialRemaining
    /\ owner_choice # NoChoice
    /\ ~IsWilliamEntry(owner_choice)
    /\ pick_account = william_info.account_id

\* C2 as stated (scope restriction for every optional candidate): the returned
\* candidate is never Kevin or William with a non-null account_id that differs
\* from the account being processed.
C2_Original ==
    (IsKevinEntry(owner_choice) \/ IsWilliamEntry(owner_choice))
        => (owner_choice.account_id = None \/ owner_choice.account_id = pick_account)

\* C2 as amended: the returned candidate is the William entry only when
\* William's account_id equals the account being processed; Kevin is not
\* restricted by his account_id.
C2_WilliamScope ==
    IsWilliamEntry(owner_choice) => owner_choice.account_id = pick_account

\* a call for another account than William's, William still having quota,
\* returned Kevin, whose own account_id is a third value
C2_Witness ==
    /\ IsKevinEntry(owner_choice)
    /\ owner_choice.account_id \notin { None, pick_account }
    /\ william_info.user_id # None
    /\ william_info.account_id \notin { None, pick_account }
    /\ max_william.remaining > 0

\* C7 as stated (quota never negative): max_william["remaining"] stays in 0..4
\* for every roster, shared user ids included.
C7_Original ==
    max_william.remaining \in 0..InitialRemaining

\* the distribution dict has been built
Distributed == script = "split" /\ distribution # << >>

\* the tasks stored under key k of the distribution dict
Bucket(k) == DictGet(distribution, k, << >>)

RECURSIVE SumSizes(_)
\* sum of the sizes of the values of dict d
SumSizes(d) == IF d = << >> THEN 0 ELSE Len(Head(d)[2]) + SumSizes(Tail(d))

\* C3 (partition sizes): with M tasks and K entries in projects_to_use, the
\* i-th entry (0-indexed) holds floor(M/K)+1 tasks if i < M mod K and
\* floor(M/K) otherwise; the stored sizes sum to M and exactly M mod K
\* entries hold the larger count.
C3_PartitionSizes ==
    Distributed =>
        LET M == Len(tasks)
            K == Len(projects_to_use)
        IN  /\ \A i \in 0..(K - 1) :
                   Len(Bucket(projects_to_use[i + 1])) =
                       (IF i < M % K THEN (M \div K) + 1 ELSE M \div K)
            /\ SumSizes(distribution) = M
            /\ Cardinality({ i \in 1..Len(distribution) :
                               Len(distribution[i][2]) = (M \div K) + 1 }) = M % K

\* more tasks than buckets, several buckets, and a remainder
C3_Witness ==
    /\ Distributed
    /\ Len(tasks) > Len(projects_to_use)
    /\ Len(tasks) % Len(projects_to_use) # 0
    /\ Len(projects_to_use) > 1

\* the positions << b, j >> of the distribution dict that hold task t
Places(t) ==
    { << b, j >> \in (1..Len(distribution)) \X (1..Len(tasks)) :
        j <= Len(distribution[b][2]) /\ distribution[b][2][j] = t }

\* C4 (disjoint cover): every queried task is stored exactly once in the
\* distribution dict, under exactly one key.
C4_DisjointCover ==
    Distributed => \A t \in 1..Len(org.tasks) : Cardinality(Places(t)) = 1

\* several tasks distributed over buckets that include a created project
C4_Witness ==
    /\ Distributed
    /\ Len(tasks) >= 2
    /\ Len(projects_to_use) >= 2
    /\ \E i \in 1..Len(projects_to_use) : projects_to_use[i] > Len(org.existing)

\* the key of the distribution dict that task t is stored under
AssignedTo(t) == distribution[(CHOOSE p \in Places(t) : TRUE)[1]][1]

\* C5 (move-list correctness): in a non-dry run, update_record is issued at
\* most once per task, to the bucket the task is assigned to, and never for a
\* task assigned to the original project; when the run completes it has been
\* issued exactly once for every task assigned elsewhere, and
\* tasks_moved + tasks_remaining_in_original = M.
C5_MoveList ==
    (Distributed /\ ~args.dry_run) =>
        /\ \A t \in 1..Len(tasks) :
               /\ update_calls[t] <= 1
               /\ AssignedTo(t) = args.project_id => update_calls[t] = 0
               /\ update_calls[t] = 1 => task_project[t] = AssignedTo(t)
               /\ update_calls[t] = 0 => task_project[t] = args.project_id
        /\ (move_b > Len(distribution)) =>
               /\ \A t \in 1..Len(tasks) :
                      AssignedTo(t) # args.project_id => update_calls[t] = 1
               /\ TasksMoved + TasksRemainingInOriginal = Len(tasks)

\* a completed non-dry run that moved tasks and kept tasks
C5_Witness ==
    /\ script = "split" /\ pc = "halt" /\ outcome = "ok" /\ ~args.dry_run
    /\ TasksMoved >= 2 /\ TasksRemainingInOriginal >= 1

\* the run found the original project and no task in it, and has ended
EndedWithoutTasks ==
    /\ script = "split" /\ pc = "halt"
    /\ org.projects # << >> /\ org.tasks = << >>

\* C6 as stated (empty-input rejection): with an empty task list the run ends
\* in an error outcome, not in a normal completion, and performs no create or
\* update.
C6_Original ==
    EndedWithoutTasks =>
        /\ outcome \in { "exit", "error" }
        /\ create_calls = 0
        /\ updates_made = 0

\* C6 as amended: with an empty task list the run prints a note and returns
\* normally, builds no bucket list and performs no create or update; a bucket
\* list that is distributed over is never empty and neither is its task list.
C6_EmptyInput ==
    /\ EndedWithoutTasks =>
           /\ outcome = "ok"
           /\ projects_to_use = << >> /\ distribution = << >>
           /\ create_calls = 0
           /\ updates_made = 0
    /\ (script = "split" /\ pc \in { "distribute", "move" }) =>
           /\ Len(projects_to_use) >= 1
           /\ Len(tasks) >= 1

\* an empty task list in a non-dry run that asks for more projects than exist
C6_Witness ==
    /\ EndedWithoutTasks
    /\ ~args.dry_run
    /\ args.num_projects > Len(org.existing)

\* C8 as stated (task count range): the number of top-level tasks of an
\* account is between --min and --max.
C8_Original ==
    (script = "generate" /\ pc \in { "parents", "subtasks", "rels" }) =>
        /\ args.min_tasks <= top_level
        /\ top_level <= args.max_tasks

\* C9 (dry run makes no changes): with --dry-run neither script invokes
\* create_record or update_record, so nothing is counted as created or moved
\* and no task changes project.
C9_DryRun ==
    args.dry_run =>
        /\ create_calls = 0
        /\ \A t \in DOMAIN update_calls : update_calls[t] = 0
        /\ \A t \in DOMAIN task_project : task_project[t] = args.project_id
        /\ updates_made = 0
        /\ summary = [projects |-> 0, tasks |-> 0, subtasks |-> 0,
                      relationships |-> 0]

\* a dry run of the generator that went through projects, tasks, subtasks and
\* relationships and ended normally
C9_Witness ==
    /\ script = "generate" /\ args.dry_run
    /\ pc = "halt" /\ outcome = "ok"
    /\ \E a \in AccountIds : org.projects[a] = 0
    /\ rel_field_available /\ ~args.skip_relationships
    /\ top_level > 0

\* C10 as stated (bucket count): projects_to_use has exactly --num-projects
\* entries, starts with the original project and holds no id twice.
C10_Original ==
    (script = "split" /\ pc = "distribute") =>
        /\ Len(projects_to_use) = args.num_projects
        /\ projects_to_use[1] = args.project_id
        /\ \A i, j \in 1..Len(projects_to_use) :
               projects_to_use[i] = projects_to_use[j] => i = j

\* a step of main() that calls pick_owner: a task or subtask joins created_tasks
PickStep == created_tasks'.n = created_tasks.n + 1

\* C11 as stated (quota decrement exactly on selection): each pick_owner call
\* lowers max_william["remaining"] by exactly 1 if it returns the William
\* entry and leaves it unchanged if it returns the me or the Kevin entry, for
\* every roster, shared user ids included.
C11_Original ==
    [][PickStep =>
         max_william'.remaining =
             max_william.remaining - (IF IsWilliamEntry(owner_choice') THEN 1 ELSE 0)]_vars
====
